---- MODULE Spec2Model ----
(***************************************************************************)
(* Model of src/src/components/HospitalFinder.tsx: the hospital sync run   *)
(* (requestLocationAndSync / syncHospitalsAround) and the appointment      *)
(* creation flow (createAppointmentFor).                                   *)
(*                                                                         *)
(* Coordinates are decimal numbers with seven fractional digits, held as   *)
(* integers in units of 10^-7 degree (40.0000004 is 400000004), so that    *)
(* the rounding done by Number.prototype.toFixed(6) is explicit.           *)
(***************************************************************************)
EXTENDS Integers, Sequences, FiniteSets, TLC

(* ------------------------------ bounds --------------------------------- *)
\* number of elements in the geodata provider's catalogue
NumElems == 7
\* number of sync runs started in one behaviour
MaxRuns == 2

(* ----------------------------- sentinels ------------------------------- *)
\* a coordinate field that is undefined in the provider element
Absent == 2000000000
\* a record that carries no id (id?: undefined) / a null id
NoId == 0
\* null error / message
NoMsg == "null"
\* units of the model per 10^-6 degree
Sub == 10
\* 10^6, the scale of the six decimals printed by toFixed(6)
Mega == 1000000

(* --------------------------- CoordinateKey ----------------------------- *)
\* decimal digits of n, left-padded with zeros to width w
RECURSIVE PadDigits(_, _)
PadDigits(n, w) ==
  IF w = 0 THEN "" ELSE PadDigits(n \div 10, w - 1) \o ToString(n % 10)

\* prints seven decimals
toFixed7(x) ==
  LET mag == IF x < 0 THEN -x ELSE x
  IN  (IF x < 0 THEN "-" ELSE "") \o ToString(mag \div (Sub * Mega)) \o "."
        \o PadDigits(mag % (Sub * Mega), 7)

\* Number(x).toFixed(6): the sign is taken off first, the magnitude is
\* rounded to the nearest 10^-6 (the larger n on a tie), and the digits are
\* printed with exactly six decimals
toFixed6(x) ==
  LET mag == IF x < 0 THEN -x ELSE x
      n   == (mag + (Sub \div 2)) \div Sub
  IN  (IF x < 0 THEN "-" ELSE "") \o ToString(n \div Mega) \o "." \o PadDigits(n % Mega, 6)

toKey(h) == toFixed6(h.latitude) \o "|" \o toFixed6(h.longitude)

(* ------------------------- provider catalogue -------------------------- *)
\* the elements the provider can return
Elem(i) ==
  CASE i = 1 -> [lat |-> 400000000, lon |-> -730000000, clat |-> Absent, clon |-> Absent,
                 name |-> "A", emergency |-> FALSE]
    [] i = 2 -> [lat |-> Absent, lon |-> Absent, clat |-> 400000010, clon |-> -730000010,
                 name |-> "B", emergency |-> FALSE]
    [] i = 3 -> [lat |-> 400000004, lon |-> -730000000, clat |-> Absent, clon |-> Absent,
                 name |-> "C", emergency |-> TRUE]
    [] i = 4 -> [lat |-> 0, lon |-> -730000000, clat |-> 410000000, clon |-> -730000000,
                 name |-> "X", emergency |-> FALSE]
    [] i = 5 -> [lat |-> 400000006, lon |-> -730000000, clat |-> Absent, clon |-> Absent,
                 name |-> "", emergency |-> FALSE]
    [] OTHER -> [lat |-> 400000000 + i * 10000000, lon |-> -730000000,
                 clat |-> Absent, clon |-> Absent, name |-> "D", emergency |-> FALSE]

Catalogue == [i \in 1 .. NumElems |-> Elem(i)]

\* the non-empty element lists a response can carry: the catalogue up to some
\* element, or one element of it
Responses ==
  { SubSeq(Catalogue, 1, b) : b \in 1 .. NumElems } \cup { << Catalogue[a] >> : a \in 1 .. NumElems }

(* --------------------------- SourceNormalizer -------------------------- *)
\* a ?? b
Coalesce(a, b) == IF a # Absent THEN a ELSE b

\* reads the direct coordinate only, never the center
MapElementNoCenter(el) ==
  IF el.lat = Absent \/ el.lat = 0 \/ el.lon = Absent \/ el.lon = 0
  THEN << >>
  ELSE << [id |-> NoId,
           name |-> IF el.name = "" THEN "Unnamed Hospital" ELSE el.name,
           latitude |-> el.lat, longitude |-> el.lon,
           emergency_available |-> el.emergency] >>

\* the .map callback: << >> stands for null, filtered out afterwards
MapElement(el) ==
  LET latVal == Coalesce(el.lat, el.clat)
      lonVal == Coalesce(el.lon, el.clon)
  IN  IF latVal = Absent \/ latVal = 0 \/ lonVal = Absent \/ lonVal = 0
      THEN << >>
      ELSE << [id |-> NoId,
               name |-> IF el.name = "" THEN "Unnamed Hospital" ELSE el.name,
               latitude |-> latVal, longitude |-> lonVal,
               emergency_available |-> el.emergency] >>

RECURSIVE Mapped(_)
Mapped(elements) ==
  IF elements = << >> THEN << >>
  ELSE MapElement(Head(elements)) \o Mapped(Tail(elements))

(* ------------------------------ Deduplicator --------------------------- *)
\* Map.prototype.set on a map held as the sequence of its values in
\* insertion order (every value is stored under its own key)
MapSet(m, k, v) ==
  IF \E j \in 1 .. Len(m) : toKey(m[j]) = k
  THEN [j \in 1 .. Len(m) |-> IF toKey(m[j]) = k THEN v ELSE m[j]]
  ELSE Append(m, v)

RECURSIVE SetAll(_, _)
SetAll(m, rows) ==
  IF rows = << >> THEN m
  ELSE SetAll(MapSet(m, toKey(Head(rows)), Head(rows)), Tail(rows))

\* keeps the first record of a key instead of the last
DedupFirstWins(mapped) ==
  LET RECURSIVE F(_, _)
      F(m, rows) ==
        IF rows = << >> THEN m
        ELSE IF \E j \in 1 .. Len(m) : toKey(m[j]) = toKey(Head(rows))
             THEN F(m, Tail(rows))
             ELSE F(Append(m, Head(rows)), Tail(rows))
  IN  F(<< >>, mapped)

\* uniq = new Map(); for (h of mapped) uniq.set(toKey(h), h); Array.from(uniq.values())
Dedup(mapped) == SetAll(<< >>, mapped)

(* ------------------------------- messages ------------------------------ *)
ErrGeolocation == "Geolocation not supported by this browser."
ErrLocation == "Unable to access location. Please allow location access."
ErrSync == "Failed to sync hospitals: "
ErrUpsert == "Supabase upsert error: "

(* ------------------------------- the store ----------------------------- *)
\* hospitals table: the sequence of its rows, the id of a row is its position;
\* (latitude, longitude) is the conflict target of the upsert
RowAt(st, lat, lon) ==
  { j \in 1 .. Len(st) : st[j].latitude = lat /\ st[j].longitude = lon }

\* inserts every row of the payload, whether or not its coordinates are held
RECURSIVE UpsertRowsInsertOnly(_, _)
UpsertRowsInsertOnly(st, payload) ==
  IF payload = << >> THEN st
  ELSE LET p == Head(payload)
       IN  UpsertRowsInsertOnly(
             Append(st, [id |-> Len(st) + 1, name |-> p.name,
                         latitude |-> p.latitude, longitude |-> p.longitude]),
             Tail(payload))

RECURSIVE UpsertRows(_, _)
UpsertRows(st, payload) ==
  IF payload = << >> THEN st
  ELSE LET p   == Head(payload)
           hit == RowAt(st, p.latitude, p.longitude)
           st1 == IF hit # {}
                  THEN [j \in 1 .. Len(st) |-> IF j \in hit THEN [st[j] EXCEPT !.name = p.name]
                                                ELSE st[j]]
                  ELSE Append(st, [id |-> Len(st) + 1, name |-> p.name,
                                   latitude |-> p.latitude, longitude |-> p.longitude])
       IN  UpsertRows(st1, Tail(payload))

\* returning: "representation": the written rows, in payload order
Returned(st, payload) ==
  [k \in 1 .. Len(payload) |->
     st[CHOOSE j \in RowAt(st, payload[k].latitude, payload[k].longitude) : TRUE]]

(* ----------------------------- BatchReconciler ------------------------- *)
\* 200 in the source; scaled down so that a run of a few records has several chunks
chunkSize == 2

Min(a, b) == IF a < b THEN a ELSE b

\* cuts chunks one record short
SliceShort(s, i) == SubSeq(s, i + 1, Min(i + chunkSize - 1, Len(s)))

\* uniqHospitals.slice(i, i + chunkSize), i counted from 0
Slice(s, i) == SubSeq(s, i + 1, Min(i + chunkSize, Len(s)))

\* chunk.map(h => ({name, address, latitude, longitude, phone, specialities}))
Payload(chunk) ==
  [k \in 1 .. Len(chunk) |->
     [name |-> chunk[k].name, latitude |-> chunk[k].latitude, longitude |-> chunk[k].longitude]]

\* the record built from a returned row r
FromRow(r) ==
  [id |-> r.id, name |-> r.name, latitude |-> r.latitude, longitude |-> r.longitude,
   emergency_available |-> FALSE]

RECURSIVE FromRows(_)
FromRows(data) ==
  IF data = << >> THEN << >> ELSE << FromRow(Head(data)) >> \o FromRows(Tail(data))

\* appends the returned rows instead of setting them under their keys
MergeAppend(prev, data) == prev \o FromRows(data)

\* keeps the entry already held under a key instead of the returned row
MergeLocalWins(prev, data) == SetAll(SetAll(<< >>, FromRows(data)), prev)

\* the updater of setHospitals after a chunk whose rows came back
Merge(prev, data) == SetAll(SetAll(<< >>, prev), FromRows(data))

\* drops the report of a failed chunk
ErrorUnflagged(outcome, err) == err

\* if (error) setError("Supabase upsert error: " + error.message)
ErrorAfter(outcome, err) == IF outcome = "error" THEN ErrUpsert ELSE err

\* setHospitals((prev) => (prev.length ? prev : uniqHospitals))
Fallback(prev, uniqHospitals) == IF Len(prev) # 0 THEN prev ELSE uniqHospitals

(* -------------------------------- state -------------------------------- *)
VARIABLES
  geolocation,  \* navigator.geolocation is present
  loading,      \* useState loading
  syncing,      \* useState syncing
  hospitals,    \* useState hospitals: the exposed result set
  error,        \* useState error
  message,      \* useState message
  store,        \* rows of the hospitals table
  runs,         \* per sync run: its position and locals
  nRuns,        \* sync runs started so far
  appt,         \* the createAppointmentFor call: its position and locals
  nAppts,       \* createAppointmentFor calls started so far
  appointments, \* rows of the appointments table
  arg,          \* the argument of a helper applied on its own
  result        \* what the helper returned

syncVars == << geolocation, loading, syncing, hospitals, error, message, store, runs, nRuns >>

bookVars == << appt, nAppts, appointments >>
pureVars == << arg, result >>

RunIds == 1 .. MaxRuns

\* nothing noted about the run before
NoBefore ==
  [known |-> FALSE, elements |-> << >>, outcomes |-> << >>, store |-> << >>,
   hospitals |-> << >>]

\* before: what the run before this one received and left behind, where a
\* specification notes it
NewRun ==
  [pc |-> "idle", fetch |-> "none", elements |-> << >>, mapped |-> << >>,
   uniqHospitals |-> << >>, i |-> 0, issued |-> << >>, outcomes |-> << >>,
   before |-> NoBefore]

\* the locals of a call that has returned are gone; its status stays
Forget(rec) == IF rec.pc \in {"done", "failed"} THEN [NewRun EXCEPT !.pc = rec.pc] ELSE rec

\* no POI selected
NoPoi ==
  [id |-> NoId, name |-> "", latitude |-> 0, longitude |-> 0, emergency_available |-> FALSE]

\* insert, auth, profile, assess, book: how each awaited call of the attempt was
\* answered; held: the rows of appointments when the attempt began
IdleAppt ==
  [pc |-> "idle", h |-> NoPoi, absent |-> FALSE, poiInserts |-> 0, inserted |-> NoId,
   insReturned |-> FALSE, hospital_id |-> NoId, auth |-> "none", user |-> "", user_uuid |-> "",
   assessment_id |-> NoId, booked |-> FALSE,
   insert |-> "none", profile |-> "unasked", assess |-> "unasked", book |-> "none", held |-> 0]

InitSync ==
  /\ appt = IdleAppt
  /\ nAppts = 0
  /\ appointments = << >>
  /\ arg = << >>
  /\ result = << >>
  /\ geolocation \in BOOLEAN
  /\ loading = TRUE
  /\ syncing = FALSE
  /\ hospitals = << >>
  /\ error = NoMsg
  /\ message = NoMsg
  /\ store = << >>
  /\ runs = [r \in RunIds |-> NewRun]
  /\ nRuns = 0

(* ------------------------ requestLocationAndSync ----------------------- *)
\* the mount effect, or the Sync button (disabled while loading or syncing)
StartRun ==
  /\ nRuns < MaxRuns
  /\ nRuns = 0 \/ (~loading /\ ~syncing)
  /\ nRuns' = nRuns + 1
  /\ message' = NoMsg
  /\ IF geolocation
     THEN /\ loading' = TRUE
          /\ error' = NoMsg
          /\ runs' = [r \in RunIds |-> IF r = nRuns + 1 THEN [NewRun EXCEPT !.pc = "locating"]
                                       ELSE Forget(runs[r])]
     ELSE /\ loading' = FALSE
          /\ error' = ErrGeolocation
          /\ runs' = [r \in RunIds |-> IF r = nRuns + 1 THEN [NewRun EXCEPT !.pc = "failed"]
                                       ELSE Forget(runs[r])]
  /\ UNCHANGED << geolocation, syncing, hospitals, store >>
  /\ UNCHANGED << bookVars, pureVars >>

\* the error callback of getCurrentPosition
LocationError(r) ==
  /\ runs[r].pc = "locating"
  /\ error' = ErrLocation
  /\ loading' = FALSE
  /\ runs' = [runs EXCEPT ![r].pc = "failed"]
  /\ UNCHANGED << geolocation, syncing, hospitals, message, store, nRuns >>
  /\ UNCHANGED << bookVars, pureVars >>

\* the success callback, up to the await of fetch
LocationSuccess(r) ==
  /\ runs[r].pc = "locating"
  /\ syncing' = TRUE
  /\ error' = NoMsg
  /\ runs' = [runs EXCEPT ![r].pc = "fetching", ![r].fetch = "pending"]
  /\ UNCHANGED << geolocation, loading, hospitals, message, store, nRuns >>
  /\ UNCHANGED << bookVars, pureVars >>

(* -------------------------- syncHospitalsAround ------------------------ *)
\* fetch rejects, or res.json() rejects: the exception reaches the catch of
\* requestLocationAndSync; syncing is not reset on this path
FetchThrows(r) ==
  /\ runs[r].pc = "fetching"
  /\ runs[r].fetch \in {"pending", "ok"}
  /\ error' = ErrSync
  /\ loading' = FALSE
  /\ runs' = [runs EXCEPT ![r].pc = "failed", ![r].fetch = "throw"]
  /\ UNCHANGED << geolocation, syncing, hospitals, message, store, nRuns >>
  /\ UNCHANGED << bookVars, pureVars >>

\* !res.ok
FetchNotOk(r) ==
  /\ runs[r].pc = "fetching"
  /\ runs[r].fetch = "pending"
  /\ syncing' = FALSE
  /\ error' = ErrSync
  /\ loading' = FALSE
  /\ runs' = [runs EXCEPT ![r].pc = "failed", ![r].fetch = "notok"]
  /\ UNCHANGED << geolocation, hospitals, message, store, nRuns >>
  /\ UNCHANGED << bookVars, pureVars >>

\* res.ok, up to the await of res.json()
FetchOk(r) ==
  /\ runs[r].pc = "fetching"
  /\ runs[r].fetch = "pending"
  /\ runs' = [runs EXCEPT ![r].fetch = "ok"]
  /\ UNCHANGED << geolocation, loading, syncing, hospitals, error, message, store, nRuns >>
  /\ UNCHANGED << bookVars, pureVars >>

\* ends the run without emptying the result set
DecodeEmptyStale(r) ==
  /\ runs[r].pc = "fetching"
  /\ runs[r].fetch = "ok"
  /\ syncing' = FALSE
  /\ loading' = FALSE
  /\ runs' = [runs EXCEPT ![r].pc = "done", ![r].fetch = "empty"]
  /\ UNCHANGED << geolocation, hospitals, error, message, store, nRuns >>
  /\ UNCHANGED << bookVars, pureVars >>

\* json.elements missing or empty
DecodeEmpty(r) ==
  /\ runs[r].pc = "fetching"
  /\ runs[r].fetch = "ok"
  /\ hospitals' = << >>
  /\ syncing' = FALSE
  /\ loading' = FALSE
  /\ runs' = [runs EXCEPT ![r].pc = "done", ![r].fetch = "empty"]
  /\ UNCHANGED << geolocation, error, message, store, nRuns >>
  /\ UNCHANGED << bookVars, pureVars >>

\* json.elements non-empty: map, dedupe, and enter the chunk loop; with nothing
\* to upsert the loop is skipped and the run ends here
DecodeElements(r, elements) ==
  /\ runs[r].pc = "fetching"
  /\ runs[r].fetch = "ok"
  /\ elements # << >>
  /\ LET mapped == Mapped(elements)
         uniq   == Dedup(mapped)
     IN  IF uniq = << >>
         THEN /\ hospitals' = Fallback(hospitals, uniq)
              /\ syncing' = FALSE
              /\ loading' = FALSE
              /\ runs' = [runs EXCEPT ![r].pc = "done", ![r].fetch = "elements",
                                      ![r].elements = elements, ![r].mapped = mapped,
                                      ![r].uniqHospitals = uniq]
         ELSE /\ runs' = [runs EXCEPT ![r].pc = "reconciling", ![r].fetch = "elements",
                                      ![r].elements = elements, ![r].mapped = mapped,
                                      ![r].uniqHospitals = uniq]
              /\ UNCHANGED << hospitals, syncing, loading >>
  /\ UNCHANGED << geolocation, error, message, store, nRuns >>
  /\ UNCHANGED << bookVars, pureVars >>

\* gives the run up at the first chunk the store refuses
UpsertChunkAborts(r, outcome) ==
  /\ runs[r].pc = "reconciling"
  /\ LET uniq    == runs[r].uniqHospitals
         chunk   == Slice(uniq, runs[r].i)
         payload == Payload(chunk)
         written == UpsertRows(store, payload)
         merged  == IF outcome = "rows" THEN Merge(hospitals, Returned(written, payload))
                    ELSE hospitals
         next    == runs[r].i + chunkSize
         last    == ~(next < Len(uniq))
         failed  == outcome = "error"
     IN  /\ store' = IF failed THEN store ELSE written
         /\ error' = ErrorAfter(outcome, error)
         /\ hospitals' = IF last /\ ~failed THEN Fallback(merged, uniq) ELSE merged
         /\ syncing' = IF last \/ failed THEN FALSE ELSE syncing
         /\ loading' = IF last \/ failed THEN FALSE ELSE loading
         /\ runs' = [runs EXCEPT ![r].i = next,
                                 ![r].issued = Append(@, payload),
                                 ![r].outcomes = Append(@, outcome),
                                 ![r].pc = IF failed THEN "failed"
                                           ELSE IF last THEN "done" ELSE "reconciling"]
  /\ UNCHANGED << geolocation, message, nRuns >>
  /\ UNCHANGED << bookVars, pureVars >>

\* one turn of the chunk loop: the upsert of the chunk at i and what the code
\* does with its result; after the last chunk, the fallback and the end of the run
UpsertChunk(r, outcome) ==
  /\ runs[r].pc = "reconciling"
  /\ LET uniq    == runs[r].uniqHospitals
         chunk   == Slice(uniq, runs[r].i)
         payload == Payload(chunk)
         written == UpsertRows(store, payload)
         merged  == IF outcome = "rows" THEN Merge(hospitals, Returned(written, payload))
                    ELSE hospitals
         next    == runs[r].i + chunkSize
         last    == ~(next < Len(uniq))
     IN  /\ store' = IF outcome = "error" THEN store ELSE written
         /\ error' = ErrorAfter(outcome, error)
         /\ hospitals' = IF last THEN Fallback(merged, uniq) ELSE merged
         /\ syncing' = IF last THEN FALSE ELSE syncing
         /\ loading' = IF last THEN FALSE ELSE loading
         /\ runs' = [runs EXCEPT ![r].i = next,
                                 ![r].issued = Append(@, payload),
                                 ![r].outcomes = Append(@, outcome),
                                 ![r].pc = IF last THEN "done" ELSE "reconciling"]
  /\ UNCHANGED << geolocation, message, nRuns >>
  /\ UNCHANGED << bookVars, pureVars >>

\* the Clear button
Clear ==
  /\ hospitals' = << >>
  /\ message' = NoMsg
  /\ UNCHANGED << geolocation, loading, syncing, error, store, runs, nRuns >>
  /\ UNCHANGED << bookVars, pureVars >>

UpsertOutcomes == {"error", "rows", "nodata"}

NextSync ==
  \/ StartRun
  \/ \E r \in RunIds : LocationError(r)
  \/ \E r \in RunIds : LocationSuccess(r)
  \/ \E r \in RunIds : FetchThrows(r)
  \/ \E r \in RunIds : FetchNotOk(r)
  \/ \E r \in RunIds : FetchOk(r)
  \/ \E r \in RunIds : DecodeEmpty(r)
  \/ \E r \in RunIds, elements \in Responses : DecodeElements(r, elements)
  \/ \E r \in RunIds, outcome \in UpsertOutcomes : UpsertChunk(r, outcome)
  \/ Clear

vars == << syncVars, bookVars, pureVars >>


Init == InitSync
Next == NextSync
Spec == Init /\ [][Next]_vars

(* ---------------------- one sync run after another -------------------- *)
\* the run of record rec is done and the store refused none of its upserts
NoFailure(rec) ==
  /\ rec.pc = "done"
  /\ rec.fetch \in {"empty", "elements"}
  /\ \A k \in 1 .. Len(rec.outcomes) : rec.outcomes[k] # "error"

\* what the latest run received and left behind, when it went through
LeftBehind ==
  IF nRuns >= 1 /\ NoFailure(runs[nRuns])
  THEN [known |-> TRUE, elements |-> runs[nRuns].elements,
        outcomes |-> runs[nRuns].outcomes, store |-> store, hospitals |-> hospitals]
  ELSE NoBefore

\* StartRun, the record of the new run noting what the run before it left
StartRunNoted ==
  /\ nRuns < MaxRuns
  /\ nRuns = 0 \/ (~loading /\ ~syncing)
  /\ nRuns' = nRuns + 1
  /\ message' = NoMsg
  /\ IF geolocation
     THEN /\ loading' = TRUE
          /\ error' = NoMsg
          /\ runs' = [r \in RunIds |->
                        IF r = nRuns + 1
                        THEN [NewRun EXCEPT !.pc = "locating", !.before = LeftBehind]
                        ELSE Forget(runs[r])]
     ELSE /\ loading' = FALSE
          /\ error' = ErrGeolocation
          /\ runs' = [r \in RunIds |->
                        IF r = nRuns + 1
                        THEN [NewRun EXCEPT !.pc = "failed", !.before = LeftBehind]
                        ELSE Forget(runs[r])]
  /\ UNCHANGED << geolocation, syncing, hospitals, store >>
  /\ UNCHANGED << bookVars, pureVars >>

\* sync runs one after another in which the store refuses no upsert, the
\* Clear button left alone
NextTwice ==
  \/ StartRunNoted
  \/ \E r \in RunIds : LocationError(r)
  \/ \E r \in RunIds : LocationSuccess(r)
  \/ \E r \in RunIds : FetchThrows(r)
  \/ \E r \in RunIds : FetchNotOk(r)
  \/ \E r \in RunIds : FetchOk(r)
  \/ \E r \in RunIds : DecodeEmpty(r)
  \/ \E r \in RunIds, elements \in Responses : DecodeElements(r, elements)
  \/ \E r \in RunIds, outcome \in UpsertOutcomes \ {"error"} : UpsertChunk(r, outcome)

SpecTwice == InitSync /\ [][NextTwice]_vars

(* ----------------------- two sync runs in flight ----------------------- *)
\* the component mounted with its mount effect run twice, as React's StrictMode
\* does in development: requestLocationAndSync has been called twice before
\* any callback, and both calls wait for the location
InitOverlap ==
  /\ appt = IdleAppt
  /\ nAppts = 0
  /\ appointments = << >>
  /\ arg = << >>
  /\ result = << >>
  /\ geolocation = TRUE
  /\ loading = TRUE
  /\ syncing = FALSE
  /\ hospitals = << >>
  /\ error = NoMsg
  /\ message = NoMsg
  /\ store = << >>
  /\ runs = [r \in RunIds |-> IF r <= 2 THEN [NewRun EXCEPT !.pc = "locating"] ELSE NewRun]
  /\ nRuns = 2

\* the component mounted once, or mounted with its effect run twice
SpecOverlap == (InitSync \/ InitOverlap) /\ [][NextSync]_vars

(* ------------------------- createAppointmentFor ------------------------ *)
\* number of createAppointmentFor calls in one behaviour
MaxAppts == 2

MsgCreated == "Appointment created (status: pending)."
ErrCreateHospital == "Error creating appointment: Failed to create hospital record: "
ErrAuthFetch == "Error creating appointment: Auth fetch error: "
ErrNotAuthenticated == "Error creating appointment: User not authenticated"
ErrAppointment == "Error creating appointment: Appointment insert error: "

\* the authenticated user's id, the id of that user's user_profiles row and
\* the id of that user's latest health_assessments row
UserId == "auth-user"
ProfileId == "profile-uuid"
LatestAssessment == 7

\* the hospitals tables a sync run that wrote the first elements of the catalogue leaves
StoreAfter(n) == UpsertRows(<< >>, Payload(Dedup(Mapped(SubSeq(Catalogue, 1, n)))))

\* a finished sync whose upserts failed exposes the normalized records; the
\* store holds what earlier runs wrote
InitBook ==
  /\ appt = IdleAppt
  /\ nAppts = 0
  /\ appointments = << >>
  /\ arg = << >>
  /\ result = << >>
  /\ geolocation = TRUE
  /\ loading = FALSE
  /\ syncing = FALSE
  /\ hospitals = Dedup(Mapped(Catalogue))
  /\ error = NoMsg
  /\ message = NoMsg
  /\ \E n \in 0 .. NumElems : store = StoreAfter(n)
  /\ runs = [r \in RunIds |-> NewRun]
  /\ nRuns = 0

\* found && found.length > 0 ? found[0].id : null
FoundId(found) == IF found # << >> THEN found[1].id ELSE NoId

\* leaves hospital_id null after the insert
InsertedIdLost(ins) == NoId

\* ins && ins[0] && ins[0].id
InsertedId(ins) == IF ins # << >> THEN ins[1].id ELSE NoId

\* the click on Confirm, up to the await of the select on hospitals
BeginAppointment(h) ==
  /\ appt.pc \in {"idle", "ended"}
  /\ nAppts < MaxAppts
  /\ nAppts' = nAppts + 1
  /\ message' = NoMsg
  /\ appt' = [IdleAppt EXCEPT !.pc = "find", !.h = h, !.held = Len(appointments)]
  /\ UNCHANGED << geolocation, loading, syncing, hospitals, error, store, runs, nRuns >>
  /\ UNCHANGED << appointments, pureVars >>

\* the select answers (or fails: found is null); a missing id issues the insert
FindHospital(failed) ==
  /\ appt.pc = "find"
  /\ LET at    == RowAt(store, appt.h.latitude, appt.h.longitude)
         found == IF failed \/ at = {} THEN << >> ELSE << store[CHOOSE j \in at : TRUE] >>
         hid   == FoundId(found)
     IN  appt' = [appt EXCEPT !.absent = (at = {}),
                              !.hospital_id = hid,
                              !.poiInserts = IF hid = NoId THEN @ + 1 ELSE @,
                              !.pc = IF hid = NoId THEN "insert" ELSE "auth"]
  /\ UNCHANGED << syncVars, nAppts, appointments, pureVars >>

\* the insert answers: an error (always, when the coordinates are taken: the
\* unique constraint), the new row, or no error and no row
InsertHospital(outcome) ==
  /\ appt.pc = "insert"
  /\ LET at      == RowAt(store, appt.h.latitude, appt.h.longitude)
         written == Append(store, [id |-> Len(store) + 1, name |-> appt.h.name,
                                   latitude |-> appt.h.latitude,
                                   longitude |-> appt.h.longitude])
         ins     == IF outcome = "row" THEN << written[Len(written)] >> ELSE << >>
     IN  /\ at # {} => outcome = "error"
         /\ IF outcome = "error"
            THEN /\ message' = ErrCreateHospital
                 /\ appt' = [appt EXCEPT !.pc = "ended", !.insert = "error"]
                 /\ store' = store
            ELSE /\ message' = message
                 /\ store' = written
                 /\ appt' = [appt EXCEPT !.pc = "auth", !.hospital_id = InsertedId(ins),
                                         !.insert = outcome,
                                         !.inserted = Len(written),
                                         !.insReturned = (outcome = "row")]
  /\ UNCHANGED << geolocation, loading, syncing, hospitals, error, runs, nRuns >>
  /\ UNCHANGED << nAppts, appointments, pureVars >>

\* goes on without a user
GetUserLenient(outcome) ==
  /\ appt.pc = "auth"
  /\ message' = IF outcome = "error" THEN ErrAuthFetch ELSE message
  /\ appt' = IF outcome = "error"
             THEN [appt EXCEPT !.pc = "ended", !.auth = "error"]
             ELSE [appt EXCEPT !.pc = "profile", !.auth = outcome, !.user = UserId]
  /\ UNCHANGED << geolocation, loading, syncing, hospitals, error, store, runs, nRuns >>
  /\ UNCHANGED << nAppts, appointments, pureVars >>

\* supabase.auth.getUser() answers
GetUser(outcome) ==
  /\ appt.pc = "auth"
  /\ CASE outcome = "error" ->
            /\ message' = ErrAuthFetch
            /\ appt' = [appt EXCEPT !.pc = "ended", !.auth = "error"]
       [] outcome = "nouser" ->
            /\ message' = ErrNotAuthenticated
            /\ appt' = [appt EXCEPT !.pc = "ended", !.auth = "nouser"]
       [] outcome = "user" ->
            /\ message' = message
            /\ appt' = [appt EXCEPT !.pc = "profile", !.auth = "user", !.user = UserId]
  /\ UNCHANGED << geolocation, loading, syncing, hospitals, error, store, runs, nRuns >>
  /\ UNCHANGED << nAppts, appointments, pureVars >>

\* gives the attempt up when the profile is not found
FindProfileBlocks(outcome) ==
  /\ appt.pc = "profile"
  /\ appt' = [appt EXCEPT !.pc = IF outcome = "found" THEN "assess" ELSE "ended",
                          !.profile = outcome,
                          !.user_uuid = IF outcome = "found" THEN ProfileId ELSE appt.user]
  /\ UNCHANGED << syncVars, nAppts, appointments, pureVars >>

\* the select on user_profiles answers: an error, no row, or the row
FindProfile(outcome) ==
  /\ appt.pc = "profile"
  /\ appt' = [appt EXCEPT !.pc = "assess",
                          !.profile = outcome,
                          !.user_uuid = IF outcome = "found" THEN ProfileId ELSE appt.user]
  /\ UNCHANGED << syncVars, nAppts, appointments, pureVars >>

\* the select on health_assessments answers: an error, no row, or the latest row
FindAssessment(outcome) ==
  /\ appt.pc = "assess"
  /\ appt' = [appt EXCEPT !.pc = "book",
                          !.assess = outcome,
                          !.assessment_id = IF outcome = "found" THEN LatestAssessment ELSE NoId]
  /\ UNCHANGED << syncVars, nAppts, appointments, pureVars >>

\* the insert on appointments answers
InsertAppointment(failed) ==
  /\ appt.pc = "book"
  /\ IF failed
     THEN /\ message' = ErrAppointment
          /\ appt' = [appt EXCEPT !.pc = "ended", !.book = "error"]
          /\ appointments' = appointments
     ELSE /\ message' = MsgCreated
          /\ appt' = [appt EXCEPT !.pc = "ended", !.booked = TRUE, !.book = "ok"]
          /\ appointments' = Append(appointments,
                                    [user_id |-> appt.user_uuid, hospital_id |-> appt.hospital_id,
                                     assessment_id |-> appt.assessment_id, status |-> "pending"])
  /\ UNCHANGED << geolocation, loading, syncing, hospitals, error, store, runs, nRuns >>
  /\ UNCHANGED << nAppts, pureVars >>

Range(s) == { s[k] : k \in 1 .. Len(s) }

NextBook ==
  \/ \E h \in Range(hospitals) : BeginAppointment(h)
  \/ \E failed \in BOOLEAN : FindHospital(failed)
  \/ \E outcome \in {"error", "row", "norow"} : InsertHospital(outcome)
  \/ \E outcome \in {"error", "nouser", "user"} : GetUser(outcome)
  \/ \E outcome \in {"error", "none", "found"} : FindProfile(outcome)
  \/ \E outcome \in {"error", "none", "found"} : FindAssessment(outcome)
  \/ \E failed \in BOOLEAN : InsertAppointment(failed)

SpecBook == InitBook /\ [][NextBook]_vars


(* ------------------- helpers applied on their own ---------------------- *)
\* longest batch handed to the deduplicator on its own
MaxBatch == 4

Abs(x) == IF x < 0 THEN -x ELSE x

Poi(name, lat, lon) ==
  [id |-> NoId, name |-> name, latitude |-> lat, longitude |-> lon,
   emergency_available |-> FALSE]

\* magnitudes in units of 10^-6 degree and seventh decimal digits; a seventh
\* digit of 5 is left out: no binary double lies exactly half way
LatBases == {0, 40000000, 89999999}
LonBases == {0, 73000000}
Digits7 == {0, 4, 6, 9}
Signs == {1, -1}

\* two points whose coordinates agree in sign and in all digits up to the sixth decimal
InitKey ==
  /\ \E sLat \in Signs, bLat \in LatBases, dLatA \in Digits7, dLatB \in Digits7,
        sLon \in Signs, bLon \in LonBases, dLonA \in Digits7, dLonB \in Digits7 :
       arg = << Poi("A", sLat * (bLat * Sub + dLatA), sLon * (bLon * Sub + dLonA)),
                Poi("B", sLat * (bLat * Sub + dLatB), sLon * (bLon * Sub + dLonB)) >>
  /\ result = << >>
  /\ appt = IdleAppt /\ nAppts = 0 /\ appointments = << >>
  /\ geolocation = TRUE /\ loading = TRUE /\ syncing = FALSE /\ hospitals = << >>
  /\ error = NoMsg /\ message = NoMsg /\ store = << >>
  /\ runs = [r \in RunIds |-> NewRun] /\ nRuns = 0

\* toKey of both points, and the deduplicator on the two of them
ApplyToKey ==
  /\ result = << >>
  /\ result' = << [ka |-> toKey(arg[1]), kb |-> toKey(arg[2]), uniq |-> Dedup(arg)] >>
  /\ UNCHANGED << syncVars, bookVars, arg >>

SpecKey == InitKey /\ [][ApplyToKey]_vars

DedupRecords ==
  { Poi("A", 400000000, -730000000), Poi("B", 400000000, -730000000),
    Poi("C", 400000004, -730000000), Poi("D", 400000006, -730000000),
    Poi("E", 410000000, -730000000) }

InitDedup ==
  /\ \E n \in 0 .. MaxBatch : arg \in [1 .. n -> DedupRecords]
  /\ result = << >>
  /\ appt = IdleAppt /\ nAppts = 0 /\ appointments = << >>
  /\ geolocation = TRUE /\ loading = TRUE /\ syncing = FALSE /\ hospitals = << >>
  /\ error = NoMsg /\ message = NoMsg /\ store = << >>
  /\ runs = [r \in RunIds |-> NewRun] /\ nRuns = 0

ApplyDedup ==
  /\ result = << >>
  /\ result' = << Dedup(arg) >>
  /\ UNCHANGED << syncVars, bookVars, arg >>

SpecDedup == InitDedup /\ [][ApplyDedup]_vars

(* ================================ claims =============================== *)
KeysOf(s) == { toKey(s[k]) : k \in 1 .. Len(s) }

RECURSIVE Concat(_)
Concat(ss) == IF ss = << >> THEN << >> ELSE Head(ss) \o Concat(Tail(ss))

\* ceil(n / chunkSize)
NumChunks(n) == (n + chunkSize - 1) \div chunkSize

\* the step in which run r reaches done
RunEnds(r) == runs[r].pc # "done" /\ runs'[r].pc = "done"



(* ----------------------------- C5: toKey ------------------------------- *)
\* x and y differ only in digits past the 6th decimal place
DifferOnlyPast6(x, y) == ((x < 0) = (y < 0)) /\ Abs(x) \div Sub = Abs(y) \div Sub

\* the digits past the 6th decimal of x and y round the same way
RoundAlike(x, y) == ((Abs(x) % Sub) * 2 < Sub) = ((Abs(y) % Sub) * 2 < Sub)

PairDiffersOnlyPast6 ==
  /\ DifferOnlyPast6(arg[1].latitude, arg[2].latitude)
  /\ DifferOnlyPast6(arg[1].longitude, arg[2].longitude)

\* C5 as stated: two coordinate pairs that differ only in digits past the 6th
\* decimal place get the same key from toKey, and the deduplicator keeps one
\* record of the two.
C5_SameKeyPast6 ==
  (result # << >> /\ PairDiffersOnlyPast6) =>
    (result[1].ka = result[1].kb /\ Len(result[1].uniq) = 1)

\* C5 amended: two coordinate pairs that differ only in digits past the 6th
\* decimal place, and whose digits past the 6th decimal round the same way in
\* latitude and in longitude, get the same key from toKey, and the
\* deduplicator keeps one record of the two (the later one).
C5_SameKeyWhenRoundedAlike ==
  (/\ result # << >>
   /\ PairDiffersOnlyPast6
   /\ RoundAlike(arg[1].latitude, arg[2].latitude)
   /\ RoundAlike(arg[1].longitude, arg[2].longitude)) =>
    (result[1].ka = result[1].kb /\ result[1].uniq = << arg[2] >>)

\* two different points, a seventh digit rounding up in both, one key
C5_Witness ==
  /\ result # << >>
  /\ PairDiffersOnlyPast6
  /\ arg[1].latitude # arg[2].latitude
  /\ arg[1].longitude # arg[2].longitude
  /\ Abs(arg[1].latitude) % Sub = 6
  /\ RoundAlike(arg[1].latitude, arg[2].latitude)
  /\ RoundAlike(arg[1].longitude, arg[2].longitude)
  /\ result[1].ka = result[1].kb
  /\ Len(result[1].uniq) = 1

(* --------------------------- C7: Deduplicator -------------------------- *)
\* the place of the last record of batch whose key is k
LastWith(batch, k) ==
  CHOOSE i \in 1 .. Len(batch) :
    /\ toKey(batch[i]) = k
    /\ \A j \in 1 .. Len(batch) : toKey(batch[j]) = k => j <= i

\* C7: deduplicating a batch of N records with M distinct keys yields exactly
\* M records, and each output record is the last record of the batch, in input
\* order, that has its key.
C7_DedupLastWins ==
  result # << >> =>
    LET out == result[1]
    IN  /\ Len(out) = Cardinality(KeysOf(arg))
        /\ KeysOf(out) = KeysOf(arg)
        /\ \A j \in 1 .. Len(out) : out[j] = arg[LastWith(arg, toKey(out[j]))]

\* a batch in which a key occurs twice with different records
C7_Witness ==
  /\ result # << >>
  /\ Len(arg) >= 3
  /\ Len(result[1]) < Len(arg)
  /\ \E i, j \in 1 .. Len(arg) :
       i < j /\ toKey(arg[i]) = toKey(arg[j]) /\ arg[i] # arg[j] /\ arg[j] \in Range(result[1])


(* ------------------- C2, C3: partial and total failure ----------------- *)
\* the records of the k-th chunk of run r, after the step
ChunkOf(r, k) == Slice(runs'[r].uniqHospitals, (k - 1) * chunkSize)

\* C2: when a run of three chunks ends with the store write having succeeded
\* for chunks 1 and 3 and failed for chunk 2, the result set holds the
\* store-returned rows of chunks 1 and 3 and the locally normalized records of
\* chunk 2, and every key of the deduplicated input is in the result set.
C2_NoRecordLost ==
  [][\A r \in RunIds :
       (RunEnds(r) /\ runs'[r].outcomes = << "rows", "error", "rows" >>) =>
         /\ KeysOf(runs'[r].uniqHospitals) \subseteq KeysOf(hospitals')
         /\ Range(ChunkOf(r, 2)) \subseteq Range(hospitals')
         /\ \A h \in Range(ChunkOf(r, 1)) \cup Range(ChunkOf(r, 3)) :
              \E g \in Range(hospitals') : toKey(g) = toKey(h) /\ g.id # NoId]_vars

\* C3: when a run ends in which no chunk got rows back from the store and the
\* deduplicated input is not empty, the result set is exactly the deduplicated
\* input of the run, whatever it held before the run.
C3_FallbackToInput ==
  [][\A r \in RunIds :
       (/\ RunEnds(r)
        /\ runs'[r].uniqHospitals # << >>
        /\ "rows" \notin Range(runs'[r].outcomes)) =>
         hospitals' = runs'[r].uniqHospitals]_vars

(* ------------------------ C4: the fetching step ------------------------ *)
\* the step in which run r gets the provider's answer `kind`
Answered(r, kind) == runs[r].fetch # kind /\ runs'[r].fetch = kind

\* C4 as stated: a non-success response, like an empty element list, ends the
\* run done with an empty result set and no error message.
C4_NotOkIsNotAnError ==
  [][\A r \in RunIds :
       (Answered(r, "notok") \/ Answered(r, "empty")) =>
         (runs'[r].pc = "done" /\ hospitals' = << >> /\ error' = NoMsg)]_vars

\* C4 amended: an empty (or missing) element list is not an error: the run
\* reaches done with an empty result set and no error message; a non-success
\* response is an error: the run ends failed, an error message is surfaced and
\* the result set is left as it was.
C4_EmptyIsNotAnError ==
  [][\A r \in RunIds :
       /\ Answered(r, "empty") =>
            (runs'[r].pc = "done" /\ hospitals' = << >> /\ error' = NoMsg
               /\ ~loading' /\ ~syncing')
       /\ Answered(r, "notok") =>
            (runs'[r].pc = "failed" /\ hospitals' = hospitals /\ error' = ErrSync)]_vars

\* a second run that got an empty element list after a run that filled the store
C4_Witness ==
  \E r \in RunIds :
    /\ r > 1
    /\ runs[r].fetch = "empty"
    /\ runs[r].pc = "done"
    /\ store # << >>
    /\ hospitals = << >>
    /\ error = NoMsg

(* --------------------------- C6: end to end ---------------------------- *)
\* [{lat: 40.0, lon: -73.0, tags: {name: "A"}},
\*  {center: {lat: 40.000001, lon: -73.000001}, tags: {name: "B"}}]
C6_Elements == << Elem(1), Elem(2) >>

RowsUpserted(r) == Len(Concat(runs[r].issued))

\* C6 as stated: the two elements normalize to 2 POIs, deduplicate to exactly 1
\* POI, the one named "B", and reconciliation upserts exactly one row.
C6_TwoCollapseToOne ==
  \A r \in RunIds :
    (runs[r].pc = "done" /\ runs[r].elements = C6_Elements) =>
      /\ Len(runs[r].mapped) = 2
      /\ Len(runs[r].uniqHospitals) = 1
      /\ runs[r].uniqHospitals[1].name = "B"
      /\ RowsUpserted(r) = 1

\* C6 amended: the two elements normalize to 2 POIs; their keys differ
\* ("40.000000|-73.000000" and "40.000001|-73.000001": the coordinates differ
\* in the 6th decimal), so deduplication keeps both, "A" before "B", and
\* reconciliation issues one upsert that carries both rows.
C6_TwoStayTwo ==
  \A r \in RunIds :
    (runs[r].pc = "done" /\ runs[r].elements = C6_Elements) =>
      /\ Len(runs[r].mapped) = 2
      /\ toKey(runs[r].mapped[1]) = "40.000000|-73.000000"
      /\ toKey(runs[r].mapped[2]) = "40.000001|-73.000001"
      /\ runs[r].uniqHospitals = runs[r].mapped
      /\ runs[r].uniqHospitals[1].name = "A"
      /\ runs[r].uniqHospitals[2].name = "B"
      /\ Len(runs[r].issued) = 1
      /\ RowsUpserted(r) = 2

\* the run on the two elements has ended and both rows are in the store
C6_Witness ==
  \E r \in RunIds :
    /\ runs[r].pc = "done"
    /\ runs[r].elements = C6_Elements
    /\ runs[r].outcomes = << "rows" >>
    /\ Len(store) = 2
    /\ Len(hospitals) = 2

(* ----------------------------- C8: chunking ---------------------------- *)
\* C8: a run splits its n deduplicated records into ceil(n / chunkSize)
\* upserts, each of chunkSize records except possibly the last, and the chunks
\* in issue order, concatenated, are the deduplicated input in its order.
C8_Chunks ==
  \A r \in RunIds :
    runs[r].fetch = "elements" =>
      LET uniq   == runs[r].uniqHospitals
          n      == Len(uniq)
          issued == runs[r].issued
          sent   == Len(Concat(issued))
      IN  /\ Concat(issued) = Payload(SubSeq(uniq, 1, sent))
          /\ \A k \in 1 .. Len(issued) :
               \/ Len(issued[k]) = chunkSize
               \/ k = NumChunks(n) /\ Len(issued[k]) = n - (k - 1) * chunkSize
          /\ runs[r].pc = "done" => (Len(issued) = NumChunks(n) /\ sent = n)
          /\ runs[r].pc = "reconciling" => Len(issued) < NumChunks(n)

\* 5 records went out as 3 upserts of 2, 2 and 1 records
C8_Witness ==
  \E r \in RunIds :
    /\ runs[r].pc = "done"
    /\ Len(runs[r].uniqHospitals) = 2 * chunkSize + 1
    /\ Len(runs[r].issued) = 3
    /\ Len(runs[r].issued[1]) = chunkSize
    /\ Len(runs[r].issued[2]) = chunkSize
    /\ Len(runs[r].issued[3]) = 1

(* ------------------------- C10: a failed chunk ------------------------- *)
\* C10: in a run with a failed chunk upsert, the run is never failed: it is
\* done, or it is at the next chunk, which is not empty; every chunk so far was
\* issued exactly once, in order, and at done every chunk of the run was; the
\* failure is surfaced as the error message.
C10_FailedChunkGoesOn ==
  \A r \in RunIds :
    "error" \in Range(runs[r].outcomes) =>
      LET uniq == runs[r].uniqHospitals
      IN  /\ runs[r].pc \in {"reconciling", "done"}
          /\ error = ErrUpsert
          /\ Len(runs[r].issued) = Len(runs[r].outcomes)
          /\ \A k \in 1 .. Len(runs[r].issued) :
               runs[r].issued[k] = Payload(Slice(uniq, (k - 1) * chunkSize))
          /\ runs[r].pc = "done" => Len(runs[r].issued) = NumChunks(Len(uniq))
          /\ runs[r].pc = "reconciling" =>
               /\ Len(runs[r].issued) < NumChunks(Len(uniq))
               /\ runs[r].i = Len(runs[r].issued) * chunkSize
               /\ Slice(uniq, runs[r].i) # << >>

\* the first of three chunks failed, the other two were written, the run is done
C10_Witness ==
  \E r \in RunIds :
    /\ runs[r].pc = "done"
    /\ runs[r].outcomes = << "error", "rows", "rows" >>
    /\ error = ErrUpsert
    /\ Len(store) >= 3


(* --------------------- C1, C9: createAppointmentFor -------------------- *)
\* C1: a createAppointmentFor call that finds no authenticated user has
\* issued no write: no insert on hospitals and no insert on appointments, and
\* it reports that the user is not authenticated.
C1_NoWriteWithoutUser ==
  (appt.pc = "ended" /\ appt.auth = "nouser") =>
    (appt.poiInserts = 0 /\ ~appt.booked /\ message = ErrNotAuthenticated)

\* C9: when the hospitals table has no row with exactly the selected POI's
\* (latitude, longitude), the call issues exactly one insert on hospitals, and
\* the id that insert returns is the hospital_id of the appointment written,
\* the id of the row that holds the POI's coordinates.
C9_InsertOnceAndIdUsed ==
  /\ (appt.absent /\ appt.pc \notin {"idle", "find"}) => appt.poiInserts = 1
  /\ (appt.absent /\ appt.booked /\ appt.insReturned) =>
       LET written == appointments[Len(appointments)]
       IN  /\ appt.inserted # NoId
           /\ written.hospital_id = appt.inserted
           /\ store[written.hospital_id].id = written.hospital_id
           /\ store[written.hospital_id].latitude = appt.h.latitude
           /\ store[written.hospital_id].longitude = appt.h.longitude

\* a POI that was not in the table has been inserted and booked
C9_Witness ==
  /\ appt.absent
  /\ appt.booked
  /\ appt.insReturned
  /\ appt.poiInserts = 1
  /\ appointments # << >>
  /\ appointments[Len(appointments)].hospital_id = Len(store)

(* ------------------- C12: results of an earlier run -------------------- *)
\* C12: when a run that follows an earlier run reaches done with a non-empty
\* deduplicated input, every POI of the exposed result set has its key among
\* the keys of that run's deduplicated input.
C12_OnlyLaterRunsPois ==
  [][\A r \in RunIds :
       (RunEnds(r) /\ runs'[r].uniqHospitals # << >>) =>
         KeysOf(hospitals') \subseteq KeysOf(runs'[r].uniqHospitals)]_vars

(* ---------------------- C15: after a failed run ------------------------ *)
\* C15: when the latest sync run has ended in failure (no location, a response
\* that is not ok, or an exception of fetch or of json), loading and syncing are
\* both false, so that the Sync button is enabled.
C15_FailedRunReleasesButton ==
  \A r \in RunIds :
    (r = nRuns /\ runs[r].pc = "failed") => (~loading /\ ~syncing)

(* ------------------------ C17: merge of a chunk ------------------------ *)
\* the step in which a chunk of run r is answered with its rows
ChunkMerged(r) ==
  /\ Len(runs'[r].outcomes) = Len(runs[r].outcomes) + 1
  /\ runs'[r].outcomes[Len(runs'[r].outcomes)] = "rows"

\* the rows the store returned for the chunk answered in this step
RowsBack(r) ==
  LET payload == runs'[r].issued[Len(runs'[r].issued)]
  IN  Returned(store', payload)

\* the keys of the records of s, in the order of s
KeySeq(s) == [k \in 1 .. Len(s) |-> toKey(s[k])]

\* the records of s whose key, listed in ks, is not in keys
Others(s, ks, keys) ==
  LET RECURSIVE F(_)
      F(k) == IF k > Len(s) THEN << >>
              ELSE IF ks[k] \in keys THEN F(k + 1) ELSE << s[k] >> \o F(k + 1)
  IN  F(1)

\* C17: when a chunk upsert succeeds and returns its rows, the result set then
\* holds under the key of each returned row exactly one entry, equal to that
\* row (its id included), and the entries under every other key are the ones
\* that were there before, in the same order.
C17_ReturnedRowsReplace ==
  [][\A r \in RunIds :
       ChunkMerged(r) =>
         \A data \in {RowsBack(r)}, kOld \in {KeySeq(hospitals)}, kNew \in {KeySeq(hospitals')} :
           \A kd \in {KeySeq(data)} :
             /\ \A k \in 1 .. Len(data) :
                  /\ data[k].id # NoId
                  /\ \E j \in 1 .. Len(hospitals') :
                       /\ { m \in 1 .. Len(hospitals') : kNew[m] = kd[k] } = {j}
                       /\ hospitals'[j].id = data[k].id
                       /\ hospitals'[j].name = data[k].name
                       /\ hospitals'[j].latitude = data[k].latitude
                       /\ hospitals'[j].longitude = data[k].longitude
             /\ Others(hospitals', kNew, Range(kd)) = Others(hospitals, kOld, Range(kd))]_vars

\* the second run has merged returned rows over a result set that the first
\* run had filled with records the store never returned: entries with an id
\* stand next to entries without one
C17_Witness ==
  /\ nRuns = 2
  /\ runs[2].outcomes # << >>
  /\ runs[2].outcomes[Len(runs[2].outcomes)] = "rows"
  /\ \E j \in 1 .. Len(hospitals) :
       /\ hospitals[j].id # NoId
       /\ toKey(hospitals[j]) \in KeysOf(runs[2].uniqHospitals)
  /\ \E j \in 1 .. Len(hospitals) :
       /\ hospitals[j].id = NoId
       /\ toKey(hospitals[j]) \notin KeysOf(runs[2].uniqHospitals)

(* ----------------------- C19: one POI per key -------------------------- *)
\* C19: in every reachable state the exposed result set holds at most one POI
\* per coordinate key.
C19_OnePerKey == Cardinality(KeysOf(hospitals)) = Len(hospitals)

\* a second run has merged its rows into a result set that held more POIs
\* than the run brought
C19_Witness ==
  /\ nRuns = 2
  /\ runs[2].outcomes # << >>
  /\ runs[2].outcomes[Len(runs[2].outcomes)] = "rows"
  /\ Len(hospitals) > Len(runs[2].uniqHospitals)
  /\ Len(runs[2].uniqHospitals) >= 2


(* ------------------------ C16: order of a run -------------------------- *)
\* the moves of a run's status; a run started where there is no geolocation
\* fails inside the step that starts it, before any await
StatusMoves ==
  { << "idle", "locating" >>, << "idle", "failed" >>,
    << "locating", "fetching" >>, << "locating", "failed" >>,
    << "fetching", "reconciling" >>, << "fetching", "done" >>, << "fetching", "failed" >>,
    << "reconciling", "done" >> }

\* C16: the status of a sync run moves only forward along idle, locating,
\* fetching, reconciling, done; failed is entered only while locating (the run
\* has queried nothing) or while fetching (the run has upserted nothing), never
\* from reconciling; and a failed run stays failed and does nothing more: it
\* issues no query and no upsert, and the store is left as it is until another
\* run starts.
C16_StatusOrder ==
  [][\A r \in RunIds :
       /\ runs'[r].pc # runs[r].pc => << runs[r].pc, runs'[r].pc >> \in StatusMoves
       /\ (runs[r].pc = "idle" /\ runs'[r].pc = "failed") =>
            (error' = ErrGeolocation /\ runs'[r].fetch = "none")
       /\ (runs[r].pc = "locating" /\ runs'[r].pc = "failed") => runs'[r].fetch = "none"
       /\ runs'[r].pc = "failed" =>
            (runs'[r].issued = << >> /\ runs'[r].fetch \in {"none", "throw", "notok"})
       /\ runs[r].pc = "failed" =>
            /\ runs'[r] \in {runs[r], Forget(runs[r])}
            /\ (r = nRuns /\ nRuns' = nRuns) => store' = store]_vars

\* a first run has gone through fetching and reconciling to done and has
\* written rows; the next run has failed while fetching
C16_Witness ==
  /\ nRuns = 2
  /\ runs[1].pc = "done"
  /\ store # << >>
  /\ runs[2].pc = "failed"
  /\ runs[2].fetch = "notok"

(* --------------------- C18: the same sync run twice -------------------- *)
\* run r is the latest, it is done and so was the run before it, the store
\* refused no upsert of either, both received the same response and the store
\* answered the chunks of both alike
RanTwice(r) ==
  /\ r = nRuns
  /\ NoFailure(runs[r])
  /\ runs[r].before.known
  /\ runs[r].elements = runs[r].before.elements
  /\ runs[r].outcomes = runs[r].before.outcomes

\* C18: when a sync run receives the response the run before it received and
\* the store refuses no upsert of either run, the second run leaves the
\* hospitals table as the first left it (same rows, same ids, same values) and
\* the result set as the first left it.
C18_SecondRunChangesNothing ==
  \A r \in RunIds :
    RanTwice(r) =>
      /\ store = runs[r].before.store
      /\ hospitals = runs[r].before.hospitals

\* the second of two runs that received the same elements has upserted two
\* chunks and is done
C18_Witness ==
  \E r \in RunIds :
    /\ RanTwice(r)
    /\ Len(runs[r].outcomes) >= 2
    /\ \A k \in 1 .. Len(runs[r].outcomes) : runs[r].outcomes[k] = "rows"
    /\ Len(store) >= 3
    /\ Len(hospitals) >= 3


(* ------------------- C11: two sync runs in flight ---------------------- *)
\* both records keep their locals: neither run had returned when the other
\* was started
Overlapped(r, q) ==
  /\ r # q
  /\ runs'[r].fetch \in {"empty", "elements"}
  /\ runs'[q].fetch \in {"empty", "elements"}
  /\ runs'[q].pc = "done"

\* C11: when two sync runs were in flight together and the one that completes
\* last has a non-empty deduplicated input, the result set after both have
\* completed holds only POIs of the run that completed last: every key of the
\* result set is a key of that run's deduplicated input.
C11_LastCompletionWins ==
  [][\A r, q \in RunIds :
       (RunEnds(r) /\ Overlapped(r, q) /\ runs'[r].uniqHospitals # << >>) =>
         KeysOf(hospitals') \subseteq KeysOf(runs'[r].uniqHospitals)]_vars


(* ------------------ C13: the steps that end the attempt ---------------- *)
\* the message of the step of the attempt that failed, NoMsg when none did
FailureOf(a) ==
  IF a.insert = "error" THEN ErrCreateHospital
  ELSE IF a.auth = "error" THEN ErrAuthFetch
  ELSE IF a.auth = "nouser" THEN ErrNotAuthenticated
  ELSE IF a.book = "error" THEN ErrAppointment
  ELSE NoMsg

\* C13: when the insert of the hospital row reports an error (step 1), when
\* getUser reports an error or no user (step 2), or when the insert of the
\* appointment reports an error (step 5), the attempt ends there: no later step
\* is taken, the attempt has written no appointment, and message holds the
\* failure's message.
C13_FailedStepAborts ==
  FailureOf(appt) # NoMsg =>
    /\ appt.pc = "ended"
    /\ ~appt.booked
    /\ Len(appointments) = appt.held
    /\ message = FailureOf(appt)
    /\ appt.insert = "error" => appt.auth = "none"
    /\ appt.auth \in {"error", "nouser"} => appt.profile = "unasked"

\* a first attempt has written its appointment; the second has failed at the
\* insert of the appointment and has written none
C13_Witness ==
  /\ nAppts = 2
  /\ appt.pc = "ended"
  /\ appt.book = "error"
  /\ appt.held = 1
  /\ Len(appointments) = 1

(* ------------------ C14: the lookups that do not block ----------------- *)
\* C14: the lookup of the profile and the lookup of the assessment never end
\* the attempt, whether they fail or find no row, and surface no message; when
\* the insert of the appointment then succeeds, the attempt has written exactly
\* one appointment, of status "pending", whose user_id is the profile's id when
\* a profile was found and the user's own id otherwise, and whose assessment_id
\* is the latest assessment's id when one was found and null otherwise.
C14_LookupsDoNotBlock ==
  /\ appt.profile # "unasked" =>
       /\ appt.pc \in {"assess", "book", "ended"}
       /\ appt.pc = "ended" => (appt.assess # "unasked" /\ appt.book # "none")
  /\ appt.pc \in {"assess", "book"} => message = NoMsg
  /\ (appt.pc = "ended" /\ appt.book = "ok") =>
       LET written == appointments[Len(appointments)]
       IN  /\ Len(appointments) = appt.held + 1
           /\ written.status = "pending"
           /\ written.user_id = IF appt.profile = "found" THEN ProfileId ELSE UserId
           /\ written.assessment_id =
                IF appt.assess = "found" THEN LatestAssessment ELSE NoId
           /\ message = MsgCreated

\* an appointment has been written after the profile lookup failed and no
\* assessment was found
C14_Witness ==
  /\ appt.pc = "ended"
  /\ appt.book = "ok"
  /\ appt.profile = "error"
  /\ appt.assess = "none"
  /\ Len(appointments) = appt.held + 1
  /\ appointments[Len(appointments)].user_id = UserId
  /\ appointments[Len(appointments)].assessment_id = NoId

(* ------------------ C20: the hospital of an appointment ---------------- *)
\* C20: the appointment an attempt has written has a hospital_id that is not
\* null and is the id of a row of the hospitals table whose latitude and
\* longitude are those of the selected POI, however the lookup and the insert
\* were answered.
C20_BookedHospitalIsDurable ==
  appt.booked =>
    LET written == appointments[Len(appointments)]
    IN  /\ written.hospital_id # NoId
        /\ written.hospital_id \in 1 .. Len(store)
        /\ store[written.hospital_id].latitude = appt.h.latitude
        /\ store[written.hospital_id].longitude = appt.h.longitude


====
